---- MODULE Spec2Model ----
(***************************************************************************)
(* Survivor selection (elimination) operators of the TSP genetic algorithm *)
(* src/src/elimination_operators.py:                                       *)
(*   fitness_sharing_elimination, lambda_plus_mu_elimination,              *)
(*   replace_worst, k_tournament_elimination.                              *)
(*                                                                         *)
(* Individuals are objects; the model names them 1..n.  A list of          *)
(* individuals is a sequence of names, so that a list holding the same     *)
(* object twice is visible as a repeated name.  Python positions are       *)
(* 0-based, TLA+ positions 1-based: combined[0] is combined[1] here.       *)
(***************************************************************************)
EXTENDS Integers, Sequences, FiniteSets

\* Bounds of the explored inputs.
MaxPool == 3
MaxFitness == 3
MaxLambda == 2
MaxK == 3
MaxSigma == 2

\* Default of the alpha parameter (fitness sharing shape exponent).
alpha == 1

VARIABLES
    population,       \* the caller's population list
    offspring,        \* the caller's offspring list
    fitness,          \* fitness[i]: the fitness attribute of individual i
    shared_fitness,   \* shared_fitness[i]: <<>> while unset, else <<num, den>>
    fitness_sharing,  \* the module global read by lambda_plus_mu_elimination
    pc,               \* "idle", "tournament" (inside the comprehension), "done"
    op,               \* the function that was called
    lambda_,          \* argument lambda_ of the call
    k,                \* argument k of the call
    sigma,            \* argument sigma of the call
    combined,         \* the local list `combined`
    result,           \* the list built so far / returned
    sample,           \* positions of combined drawn by the last tournament
    outcome           \* "none", "returned", "NameError", "IndexError"

vars == <<population, offspring, fitness, shared_fitness, fitness_sharing, pc,
          op, lambda_, k, sigma, combined, result, sample, outcome>>

----------------------------------------------------------------------------
\* Helpers

Min(a, b) == IF a < b THEN a ELSE b

Max(a, b) == IF a > b THEN a ELSE b

Abs(a) == IF a < 0 THEN 0 - a ELSE a

RECURSIVE Pow(_, _)
Pow(x, e) == IF e = 0 THEN 1 ELSE x * Pow(x, e - 1)

Range(s) == {s[i] : i \in 1..Len(s)}

\* seq[:stop] of Python: a negative stop counts from the end, and both ends
\* are clamped to the list.
PySliceTo(s, stop) ==
    LET hi == IF stop < 0 THEN Max(Len(s) + stop, 0) ELSE Min(stop, Len(s))
    IN  SubSeq(s, 1, hi)

\* The key of the sorts: lambda k: k.fitness
Key(i) == fitness[i]

\* Insertion of x into the sorted list s behind every element whose key is
\* not greater (what keeps the sort stable).
Insert(s, x) ==
    LET p == Cardinality({i \in 1..Len(s) : Key(s[i]) <= Key(x)})
    IN  SubSeq(s, 1, p) \o <<x>> \o SubSeq(s, p + 1, Len(s))

\* sorted(s, key=lambda k: k.fitness, reverse=False): stable, ascending,
\* returns a new list.
unsorted(s) == s

RECURSIVE sorted(_)
sorted(s) ==
    IF s = <<>> THEN <<>>
    ELSE Insert(sorted(SubSeq(s, 1, Len(s) - 1)), s[Len(s)])

----------------------------------------------------------------------------
\* Collaborators of the module that live in other files of the repository.

\* Genotype distance: every individual has its own genotype, individual i
\* sitting at point i of a line.
distance(a, b) == Abs(a - b)

\* Sum over the list `others` of max(0, 1 - (d/sigma)^alpha), times sigma^alpha.
RECURSIVE SharingSum(_, _, _)
SharingSum(c, others, sg) ==
    IF others = <<>> THEN 0
    ELSE Max(0, Pow(sg, alpha) - Pow(distance(c, others[1]), alpha))
         + SharingSum(c, Tail(others), sg)

\* Shared fitness of c against `others`, as the numerator of a fraction whose
\* denominator is sigma^alpha:  fitness * (1 + sharing sum).
SharedFitness(c, others, sg) ==
    fitness[c] * (Pow(sg, alpha) + SharingSum(c, others, sg))

\* calc_shared_fitnesses(population, survivors, alpha, sigma): the shared
\* fitness of every member of the first list against the second.
calc_shared_fitnesses(pool, survivors, sg) ==
    [i \in 1..Len(pool) |-> SharedFitness(pool[i], survivors, sg)]

\* k_tournament_selection(pool, k): k positions drawn uniformly with
\* replacement, the winner a drawn individual of minimum fitness.  A draw is
\* recorded as the set of distinct positions drawn (1 to k of them).
Draws(n, kk) == {S \in SUBSET (1..n) : S # {} /\ Cardinality(S) <= kk}

Winners(pool, S) == {w \in S : \A j \in S : fitness[pool[w]] <= fitness[pool[j]]}

----------------------------------------------------------------------------
\* np.argmin: the first position of the minimum
ArgMin(f) ==
    CHOOSE i \in 1..Len(f) :
        /\ \A j \in 1..Len(f) : f[i] <= f[j]
        /\ \A j \in 1..(i - 1) : f[j] > f[i]

\* population + offspring
Pool == population \o offspring

TypeOK ==
    /\ pc \in {"idle", "tournament", "done"}
    /\ outcome \in {"none", "returned", "NameError", "IndexError"}
    /\ fitness_sharing \in {"undefined", "True", "False"}
    /\ Range(result) \subseteq 1..Len(fitness)

----------------------------------------------------------------------------
\* Initial states.  The caller owns two lists of distinct individuals, every
\* one with a fitness; nothing has been called yet.  The module global
\* fitness_sharing is not defined by the module itself: it is undefined
\* unless the driver has put it there.

Idle ==
    /\ pc = "idle"
    /\ op = "none"
    /\ lambda_ = 0
    /\ k = 0
    /\ sigma = 0
    /\ combined = <<>>
    /\ result = <<>>
    /\ sample = {}
    /\ outcome = "none"

Init ==
    /\ \E m \in 0..MaxPool : \E n \in 0..(MaxPool - m) :
          /\ population = [i \in 1..m |-> i]
          /\ offspring = [i \in 1..n |-> m + i]
          /\ fitness \in [1..(m + n) -> 1..MaxFitness]
          /\ shared_fitness = [i \in 1..(m + n) |-> <<>>]
    /\ fitness_sharing \in {"undefined", "True", "False"}
    /\ Idle

\* The pool of the example of the specification: population fitnesses
\* [5, 3, 8], offspring fitnesses [1, 9].
InitExample ==
    /\ population = <<1, 2, 3>>
    /\ offspring = <<4, 5>>
    /\ fitness = <<5, 3, 8, 1, 9>>
    /\ shared_fitness = [i \in 1..5 |-> <<>>]
    /\ fitness_sharing \in {"undefined", "True", "False"}
    /\ Idle

----------------------------------------------------------------------------
\* fitness_sharing_elimination(offspring, population, lambda_, alpha, sigma)

\* One pass of the loop body: argmin of the shared fitnesses of all of
\* `combined` against the survivors, appended to the survivors.
SharingStep(c, survivors, sg) ==
    Append(survivors, c[ArgMin(calc_shared_fitnesses(c, survivors, sg))])

\* for _ in range(lambda_)
RECURSIVE SharingLoop(_, _, _, _)
SharingLoop(c, survivors, n, sg) ==
    IF n = 0 THEN survivors
    ELSE SharingLoop(c, SharingStep(c, survivors, sg), n - 1, sg)

fitness_sharing_elimination(l, sg) ==
    /\ pc = "idle"
    /\ op' = "fitness_sharing_elimination"
    /\ lambda_' = l
    /\ sigma' = sg
    /\ combined' = sorted(Pool)
    /\ IF combined' = <<>>
       THEN /\ outcome' = "IndexError"
            /\ result' = <<>>
       ELSE /\ outcome' = "returned"
            /\ result' = SharingLoop(combined', <<combined'[1]>>, l, sg)
    /\ pc' = "done"
    /\ UNCHANGED <<population, offspring, fitness, shared_fitness,
                   fitness_sharing, k, sample>>

----------------------------------------------------------------------------
\* lambda_plus_mu_elimination(offspring, population, lambda_, alpha, sigma)

SharedFitnessIndicesAll(n) == 1..n

\* range(1, len(combined)): every position but the first
SharedFitnessIndices(n) == 2..n

\* combined[:idx] + combined[idx+1:]
Others(c, idx) == SubSeq(c, 1, idx - 1) \o SubSeq(c, idx + 1, Len(c))

\* The loop of calc_shared_fitness calls: the survivors at the loop's
\* positions get their shared_fitness attribute set.
WithSharedFitness(c, sg) ==
    [i \in DOMAIN shared_fitness |->
        IF \E idx \in SharedFitnessIndices(Len(c)) : c[idx] = i
        THEN LET idx == CHOOSE x \in SharedFitnessIndices(Len(c)) : c[x] = i
             IN  <<SharedFitness(i, Others(c, idx), sg), Pow(sg, alpha)>>
        ELSE shared_fitness[i]]

lambda_plus_mu_elimination(l, sg) ==
    /\ pc = "idle"
    /\ op' = "lambda_plus_mu_elimination"
    /\ lambda_' = l
    /\ sigma' = sg
    /\ combined' = PySliceTo(sorted(Pool), l)
    /\ IF fitness_sharing = "undefined"
       THEN /\ outcome' = "NameError"
            /\ result' = <<>>
            /\ UNCHANGED shared_fitness
       ELSE /\ outcome' = "returned"
            /\ result' = combined'
            /\ shared_fitness' = IF fitness_sharing = "True"
                                 THEN WithSharedFitness(combined', sg)
                                 ELSE shared_fitness
    /\ pc' = "done"
    /\ UNCHANGED <<population, offspring, fitness, fitness_sharing, k, sample>>

----------------------------------------------------------------------------
\* replace_worst(offspring, population, lambda_)

KeptDropFirst(pop, off) == SubSeq(pop, Len(off) + 1, Len(pop))

\* population[:-len(offspring)]
Kept(pop, off) == PySliceTo(pop, 0 - Len(off))

replace_worst(l) ==
    /\ pc = "idle"
    /\ op' = "replace_worst"
    /\ lambda_' = l
    /\ combined' = Kept(population, offspring) \o offspring
    /\ result' = PySliceTo(sorted(combined'), l)
    /\ outcome' = "returned"
    /\ pc' = "done"
    /\ UNCHANGED <<population, offspring, fitness, shared_fitness,
                   fitness_sharing, k, sigma, sample>>

----------------------------------------------------------------------------
\* k_tournament_elimination(offspring, population, lambda_, k)

SeedLast(c) == c[Len(c)]

\* combined[0]
Seed(c) == c[1]

TournamentCountLambda(l) == l

\* range(lambda_-1)
TournamentCount(l) == l - 1

\* The call up to the list comprehension: combine, sort, seed the result.
k_tournament_elimination(l, kk) ==
    /\ pc = "idle"
    /\ op' = "k_tournament_elimination"
    /\ lambda_' = l
    /\ k' = kk
    /\ combined' = sorted(Pool)
    /\ IF combined' = <<>>
       THEN /\ outcome' = "IndexError"
            /\ result' = <<>>
            /\ pc' = "done"
       ELSE /\ result' = <<Seed(combined')>>
            /\ IF TournamentCount(l) <= 0
               THEN outcome' = "returned" /\ pc' = "done"
               ELSE outcome' = "none" /\ pc' = "tournament"
    /\ UNCHANGED <<population, offspring, fitness, shared_fitness,
                   fitness_sharing, sigma, sample>>

\* One element of the comprehension: k_tournament_selection(combined, k).
\* After the last one the list is returned.
k_tournament_selection ==
    /\ pc = "tournament"
    /\ \E S \in Draws(Len(combined), k) : \E w \in Winners(combined, S) :
          /\ sample' = S
          /\ result' = Append(result, combined[w])
    /\ IF Len(result') >= 1 + TournamentCount(lambda_)
       THEN outcome' = "returned" /\ pc' = "done"
       ELSE outcome' = "none" /\ pc' = "tournament"
    /\ UNCHANGED <<population, offspring, fitness, shared_fitness,
                   fitness_sharing, op, lambda_, k, sigma, combined>>

----------------------------------------------------------------------------
Next ==
    \/ \E l \in 1..MaxLambda : \E sg \in 1..MaxSigma :
          fitness_sharing_elimination(l, sg)
    \/ \E l \in 1..MaxLambda : \E sg \in 1..MaxSigma :
          lambda_plus_mu_elimination(l, sg)
    \/ \E l \in 1..MaxLambda : replace_worst(l)
    \/ \E l \in 1..MaxLambda : \E kk \in 1..MaxK :
          k_tournament_elimination(l, kk)
    \/ k_tournament_selection

Spec == Init /\ [][Next]_vars

SpecExample == InitExample /\ [][Next]_vars

----------------------------------------------------------------------------
\* Vocabulary of the properties

FitnessOf(s) == [i \in 1..Len(s) |-> fitness[s[i]]]

IsSorted(s) == \A i \in 1..(Len(s) - 1) : fitness[s[i]] <= fitness[s[i + 1]]

Count(s, x) == Cardinality({i \in 1..Len(s) : s[i] = x})

IsMinimum(x, s) == \A j \in 1..Len(s) : fitness[x] <= fitness[s[j]]

\* Position i of s comes before position j in the stable ascending order.
Before(s, i, j) ==
    \/ fitness[s[i]] < fitness[s[j]]
    \/ fitness[s[i]] = fitness[s[j]] /\ i < j

\* The stable ascending-fitness sort of s, by rank: its r-th element is the
\* one that has exactly r - 1 elements before it.
StableSorted(s) ==
    [r \in 1..Len(s) |->
        s[CHOOSE i \in 1..Len(s) :
              Cardinality({j \in 1..Len(s) : Before(s, j, i)}) = r - 1]]

FirstOf(s, n) == SubSeq(s, 1, Min(n, Len(s)))

\* population without its last len(offspring) members
WithoutWorst == SubSeq(population, 1, Len(population) - Len(offspring))

Returned(f) == op = f /\ pc = "done" /\ outcome = "returned"

----------------------------------------------------------------------------
\* C1: for 0 <= len(offspring) <= len(population) and lambda_ >= 1,
\* replace_worst returns the first lambda_ elements of the stable ascending
\* sort of (population without its last len(offspring) members) + offspring;
\* with an empty offspring list no population member is dropped.
C1_ReplaceWorstContract ==
    (op = "replace_worst" /\ pc = "done" /\ Len(offspring) <= Len(population))
        => /\ outcome = "returned"
           /\ result = FirstOf(StableSorted(WithoutWorst \o offspring), lambda_)

\* C2 (as stated): on population [5,3,8], offspring [1,9], lambda_ = 2,
\* replace_worst drops only the 8, combines [5,3,1,9] and returns [1,3].
C2_ExampleAsStated ==
    (Returned("replace_worst") /\ lambda_ = 2)
        => /\ FitnessOf(combined) = <<5, 3, 1, 9>>
           /\ FitnessOf(result) = <<1, 3>>

\* C2 (amended): on population [5,3,8], offspring [1,9], lambda_ = 2,
\* replace_worst drops the last two population members (3 and 8), combines
\* [5,1,9] and returns the individuals with fitnesses [1,5] in that order.
C2_ExampleAmended ==
    (op = "replace_worst" /\ pc = "done" /\ lambda_ = 2)
        => /\ outcome = "returned"
           /\ FitnessOf(combined) = <<5, 1, 9>>
           /\ FitnessOf(result) = <<1, 5>>

C2_Witness ==
    /\ Returned("replace_worst")
    /\ lambda_ = 2
    /\ FitnessOf(population) = <<5, 3, 8>>
    /\ FitnessOf(offspring) = <<1, 9>>

\* C3: a list returned by lambda_plus_mu_elimination or replace_worst is
\* sorted in non-decreasing fitness, and holds no individual more often than
\* population + offspring does (so every element comes from the two lists).
C3_SortedAndDrawn ==
    (Returned("lambda_plus_mu_elimination") \/ Returned("replace_worst"))
        => /\ IsSorted(result)
           /\ \A x \in Range(result) : Count(result, x) <= Count(Pool, x)

C3_Witness ==
    /\ Returned("lambda_plus_mu_elimination")
    /\ Len(result) >= 2
    /\ ~IsSorted(Pool)
    /\ fitness[result[1]] < fitness[result[2]]

\* C4: on valid inputs (lambda_ >= 1, k >= 1, non-empty pool,
\* len(offspring) <= len(population), lambda_ <= pool size, and
\* lambda_ <= pool size - 1 for fitness sharing) the call returns a list of
\* length lambda_ (lambda_plus_mu_elimination, replace_worst,
\* k_tournament_elimination) or lambda_ + 1 (fitness_sharing_elimination).
C4_ResultLength ==
    (/\ pc = "done"
     /\ Len(Pool) >= 1
     /\ Len(offspring) <= Len(population)
     /\ lambda_ <= Len(Pool)
     /\ op = "fitness_sharing_elimination" => lambda_ <= Len(Pool) - 1)
        => /\ outcome = "returned"
           /\ Len(result) = IF op = "fitness_sharing_elimination"
                            THEN lambda_ + 1 ELSE lambda_

\* C5: replace_worst with len(offspring) > len(population) ends in an
\* InvalidArgument error and returns no survivor list.
C5_ReplaceWorstRejects ==
    (op = "replace_worst" /\ pc = "done" /\ Len(offspring) > Len(population))
        => outcome = "InvalidArgument" /\ result = <<>>

\* C6: with a non-empty pool, whatever the tournaments draw, the first element
\* of k_tournament_elimination's result has the minimum fitness of
\* population + offspring, and every element is a member of the pool.
C6_TournamentSeedIsMinimum ==
    (op = "k_tournament_elimination" /\ Len(Pool) >= 1)
        => /\ Len(result) >= 1
           /\ IsMinimum(result[1], Pool)
           /\ Range(result) \subseteq Range(Pool)

C6_Witness ==
    /\ Returned("k_tournament_elimination")
    /\ Len(result) = 2
    /\ fitness[result[1]] < fitness[result[2]]
    /\ Len(Pool) = MaxPool

\* C7 (as stated): with k == len(pool) every individual returned by
\* k_tournament_elimination has the pool's minimum fitness.
C7_AllWinnersGlobalMinimum ==
    (Returned("k_tournament_elimination") /\ k = Len(Pool))
        => \A i \in 1..Len(result) : IsMinimum(result[i], Pool)

\* C7 (amended): with k == len(pool), k_tournament_elimination returns
\* lambda_ individuals of which the first has the pool's minimum fitness;
\* a tournament's winner has the minimum fitness of its own sample, and is a
\* global minimum exactly when the sample holds one.
C7_WinnerIsSampleMinimum ==
    (Returned("k_tournament_elimination") /\ k = Len(Pool))
        => /\ Len(result) = lambda_
           /\ IsMinimum(result[1], Pool)
           /\ sample # {} =>
                /\ \E w \in sample :
                      /\ combined[w] = result[Len(result)]
                      /\ \A j \in sample :
                            fitness[combined[w]] <= fitness[combined[j]]
                /\ IsMinimum(result[Len(result)], Pool)
                      <=> \E j \in sample : IsMinimum(combined[j], Pool)

C7_Witness ==
    /\ Returned("k_tournament_elimination")
    /\ k = Len(Pool)
    /\ k >= 2
    /\ ~IsMinimum(result[Len(result)], Pool)

\* C8: for lambda_ <= pool size - 1, fitness_sharing_elimination appends no
\* pool member twice, and never appends the seed combined[0] again.
C8_SurvivorsDistinct ==
    (Returned("fitness_sharing_elimination") /\ lambda_ <= Len(Pool) - 1)
        => \A x \in Range(result) : Count(result, x) = 1

\* C9: for every population, offspring and lambda_ >= 1,
\* lambda_plus_mu_elimination completes and returns the first lambda_
\* elements of the stable ascending-fitness sort of population + offspring.
C9_LambdaPlusMuCompletes ==
    (op = "lambda_plus_mu_elimination" /\ pc = "done")
        => /\ outcome = "returned"
           /\ result = FirstOf(StableSorted(Pool), lambda_)

\* C10: no step of any strategy changes the caller's population or offspring
\* list or any individual's fitness; shared_fitness is written only by
\* lambda_plus_mu_elimination with the fitness-sharing toggle enabled, and
\* only on survivors at positions >= 1 (0-based) of the returned list.
C10_InputsUntouched ==
    [][/\ population' = population
       /\ offspring' = offspring
       /\ fitness' = fitness
       /\ fitness_sharing' = fitness_sharing
       /\ \A i \in DOMAIN shared_fitness :
             shared_fitness'[i] # shared_fitness[i]
                => /\ op' = "lambda_plus_mu_elimination"
                   /\ fitness_sharing = "True"
                   /\ \E idx \in 2..Len(result') : result'[idx] = i]_vars

C10_Witness ==
    /\ Returned("lambda_plus_mu_elimination")
    /\ fitness_sharing = "True"
    /\ Len(result) = MaxLambda
    /\ shared_fitness[result[1]] = <<>>
    /\ \A idx \in 2..Len(result) : shared_fitness[result[idx]] # <<>>

----------------------------------------------------------------------------
\* Supporting properties: what the failing contracts above still give.

\* With the global defined, lambda_plus_mu_elimination returns the first
\* lambda_ elements of the stable sort of population + offspring.
LambdaPlusMuTopLambda ==
    Returned("lambda_plus_mu_elimination")
        => result = FirstOf(StableSorted(Pool), lambda_)

\* lambda_plus_mu_elimination fails only for want of the global.
LambdaPlusMuNameError ==
    (op = "lambda_plus_mu_elimination" /\ pc = "done")
        => (outcome = "NameError" <=> fitness_sharing = "undefined")

\* With 1 <= len(offspring) <= len(population), replace_worst meets its
\* contract.
ReplaceWorstNonEmptyOffspring ==
    (Returned("replace_worst") /\ Len(offspring) >= 1
                               /\ Len(offspring) <= Len(population))
        => result = FirstOf(StableSorted(WithoutWorst \o offspring), lambda_)

\* With no offspring, or more offspring than population, the whole population
\* is dropped.
ReplaceWorstDropsAll ==
    (Returned("replace_worst")
         /\ (Len(offspring) = 0 \/ Len(offspring) > Len(population)))
        => result = FirstOf(StableSorted(offspring), lambda_)

\* The lengths the strategies do return.
ReturnedLengths ==
    /\ Returned("k_tournament_elimination") => Len(result) = lambda_
    /\ Returned("fitness_sharing_elimination") => Len(result) = lambda_ + 1
    /\ Returned("lambda_plus_mu_elimination")
          => Len(result) = Min(lambda_, Len(Pool))
    /\ Returned("replace_worst") => Len(result) = Min(lambda_, Len(combined))

====
